---- MODULE Spec2Model ----
(***************************************************************************)
(* Model of the botframework worker service                               *)
(* (src/botframework/worker/main.py, src/botframework/rest/schemas.py).   *)
(*                                                                         *)
(* The worker is one uvicorn process.  Both endpoints are `async def`     *)
(* handlers without any await, so a handler body runs to completion on    *)
(* the single event-loop thread; the blocking llama call made by          *)
(* create_chat_response therefore occupies the event loop until it        *)
(* returns.  stream_chat_response is a synchronous generator handed to    *)
(* StreamingResponse, which advances it one next() at a time on a worker  *)
(* thread, off the event loop.                                            *)
(*                                                                         *)
(* JSON numbers are kept as their literals ("0.7", "40"); Python None and *)
(* JSON null are the value Null; a key missing from a JSON body is a key  *)
(* missing from the DOMAIN of the body.  String concatenation a + b is    *)
(* the pair <<a, b>>.                                                     *)
(***************************************************************************)
EXTENDS Integers, Sequences, FiniteSets, TLC

VARIABLES
    phase,      \* "boot" before uvicorn.run, "serving" after
    llm,        \* the module-level handle: NoModel (None) or Loaded
    pc,         \* per connection: position of the request being served
    route,      \* per connection: "chat", "health" or "none"
    body,       \* per connection: the JSON body received
    calls,      \* per connection: kwargs of the llama calls made for the request
    frames,     \* per connection: SSE frames yielded so far
    resp,       \* per connection: the HTTP response
    adapter     \* per connection: "none", "mock" or "runtime" (what the handler entered)

vars == <<phase, llm, pc, route, body, calls, frames, resp, adapter>>

\* ---- bounds ----
NumConns == 2       \* simultaneous connections
MaxMsgs == 2        \* longest messages list enumerated
MaxChunks == 2      \* most chunks a runtime stream yields
MaxTok == 1         \* largest token count the runtime reports

Conns == 1..NumConns

\* ---- values ----
Null == "None"
BadType == "\"hot\""
NoModel == "None"
Loaded == "Llama"
Contents == {"hi", "yo"}
SamplingFields == {"temperature", "top_p", "top_k", "repeat_penalty"}
NumericFields == SamplingFields \cup {"max_tokens", "n"}
RequestFields == {"model", "messages", "temperature", "top_p", "n", "max_tokens",
                  "stream", "stop", "top_k", "repeat_penalty"}

NoBody == [k \in {} |-> Null]
NoResp == [kind |-> "none"]

Last(s) == s[Len(s)]

\* ---- rest/schemas.py ----
ChatMessage(role, content) == [role |-> role, content |-> content]

\* Field defaults of ChatCompletionRequest.
FieldDefault(f) ==
    CASE f = "temperature" -> "0.7"
      [] f = "top_p" -> "1.0"
      [] f = "n" -> "1"
      [] f = "max_tokens" -> Null
      [] f = "stream" -> FALSE
      [] f = "stop" -> Null
      [] f = "top_k" -> "40"
      [] f = "repeat_penalty" -> "1.1"

\* pydantic validation of the body against ChatCompletionRequest: model and
\* messages are required, messages is List[ChatMessage] with no length
\* constraint, every Optional field accepts null, numbers must be numbers.
ValidBody(b) ==
    /\ "model" \in DOMAIN b
    /\ "messages" \in DOMAIN b
    /\ \A f \in NumericFields \cap DOMAIN b : b[f] # BadType

\* The validated request object: present keys as sent, absent keys defaulted.
ParseRequest(b) ==
    [f \in RequestFields |-> IF f \in DOMAIN b THEN b[f] ELSE FieldDefault(f)]

\* ---- worker/main.py ----
\* The warning sign U+26A0 U+FE0F is written as its name.
MockPrefix == "[WARNING SIGN] Mock Response (Model not loaded). You said: "

\* A mock that reports a token it never produced.
MockUsageMiscounted == [prompt_tokens |-> 0, completion_tokens |-> 0, total_tokens |-> 1]

MockUsage == [prompt_tokens |-> 0, completion_tokens |-> 0, total_tokens |-> 0]

\* mock_response(request); request.messages[-1] raises IndexError on [].
MockLastMessage(request) == Last(request.messages)

MockResponse(request) ==
    IF Len(request.messages) = 0
    THEN [kind |-> "error", status |-> 500, detail |-> "IndexError"]
    ELSE [kind |-> "completion", status |-> 200,
          body |-> [id |-> "chatcmpl-mock",
                    object |-> "chat.completion",
                    model |-> request.model,
                    choices |-> << [index |-> 0,
                                    message |-> ChatMessage("assistant",
                                        <<MockPrefix, MockLastMessage(request).content>>),
                                    finish_reason |-> "stop"] >>,
                    usage |-> MockUsage]]

\* messages converted to the list of dicts given to llama-cpp.
LlamaMessages(request) ==
    [i \in 1..Len(request.messages) |->
        [role |-> request.messages[i].role, content |-> request.messages[i].content]]

\* kwargs of llm.create_chat_completion in create_chat_response.
CreateChatArgs(request) ==
    [messages |-> LlamaMessages(request),
     temperature |-> IF request.temperature = Null THEN "0.7" ELSE request.temperature,
     top_p |-> request.top_p,
     top_k |-> IF request.top_k = Null THEN "40" ELSE request.top_k,
     max_tokens |-> request.max_tokens,
     stop |-> request.stop,
     repeat_penalty |-> IF request.repeat_penalty = Null THEN "1.1"
                        ELSE request.repeat_penalty,
     stream |-> FALSE]

\* kwargs of llm.create_chat_completion in stream_chat_response.
StreamChatArgs(request) ==
    [messages |-> LlamaMessages(request),
     temperature |-> IF request.temperature = Null THEN "0.7" ELSE request.temperature,
     top_p |-> request.top_p,
     top_k |-> IF request.top_k = Null THEN "40" ELSE request.top_k,
     max_tokens |-> request.max_tokens,
     stop |-> request.stop,
     repeat_penalty |-> IF request.repeat_penalty = Null THEN "1.1"
                        ELSE request.repeat_penalty,
     stream |-> TRUE]

\* What the runtime returns for stream=False: an OpenAI-shaped dict whose
\* usage it computes itself (total is the sum of the two counts).
RuntimeCompletion(p, k) ==
    [id |-> "chatcmpl-runtime",
     object |-> "chat.completion",
     usage |-> [prompt_tokens |-> p, completion_tokens |-> k, total_tokens |-> p + k]]

\* create_chat_response returns the runtime's dict unchanged.
CreateChatResponse(result) == [kind |-> "completion", status |-> 200, body |-> result]

\* The i-th dict the runtime's stream yields.
RuntimeChunk(i) == [object |-> "chat.completion.chunk", seq |-> i]

\* f"data: {json.dumps(chunk)}\n\n"
SSEFrame(chunk) == [prefix |-> "data: ", payload |-> [json |-> chunk], suffix |-> "\n\n"]

\* "data: [DONE]\n\n"
DoneFrame == [prefix |-> "data: ", payload |-> [text |-> "[DONE]"], suffix |-> "\n\n"]

\* A health check that does not look at the handle.
HealthStatusAlwaysOk(l) == "ok"

HealthStatus(l) == IF l # NoModel THEN "ok" ELSE "mock_mode"

HealthResponse(l) ==
    [kind |-> "health", status |-> 200,
     body |-> [status |-> HealthStatus(l), model_loaded |-> (l # NoModel)]]

\* ---- request bodies enumerated ----
RECURSIVE SeqsUpTo(_, _)
SeqsUpTo(S, n) ==
    IF n = 0 THEN {<<>>}
    ELSE LET shorter == SeqsUpTo(S, n - 1)
         IN shorter \cup {Append(s, x) : s \in {t \in shorter : Len(t) = n - 1}, x \in S}

MessageLists == SeqsUpTo({ChatMessage("user", c) : c \in Contents}, MaxMsgs)

ChatBody(msgs, stream) == [model |-> "x", messages |-> msgs, stream |-> stream]

NullFields(S) == [f \in S |-> Null]

\* Bodies for the concurrent specification: a well-formed request, blocking
\* or streaming, and a malformed one; many interleavings.
CoreBodies ==
    {ChatBody(<<ChatMessage("user", "hi")>>, s) : s \in BOOLEAN}
    \cup {[model |-> "x"]}

\* Bodies for the single-connection specification: every messages list up to
\* MaxMsgs, every set of sampling fields sent as null, malformed bodies.
AllBodies ==
    {ChatBody(m, s) @@ NullFields(N) :
        m \in MessageLists, s \in BOOLEAN, N \in SUBSET SamplingFields}
    \cup {[model |-> "x"], [messages |-> <<ChatMessage("user", "hi")>>],
          ChatBody(<<ChatMessage("user", "hi")>>, FALSE) @@ [temperature |-> BadType]}

\* ---- state machine ----
Init ==
    /\ phase = "boot"
    /\ llm = NoModel
    /\ pc = [c \in Conns |-> "idle"]
    /\ route = [c \in Conns |-> "none"]
    /\ body = [c \in Conns |-> NoBody]
    /\ calls = [c \in Conns |-> <<>>]
    /\ frames = [c \in Conns |-> <<>>]
    /\ resp = [c \in Conns |-> NoResp]
    /\ adapter = [c \in Conns |-> "none"]

\* The event-loop thread is inside a synchronous llama call.
LoopBusy == \E c \in Conns : pc[c] = "blocking"

\* A handler can run: it needs the event-loop thread.
CanServe(c) == pc[c] = "received" /\ ~LoopBusy

\* __main__: the handle is assigned at most once, before uvicorn.run.
Main ==
    /\ phase = "boot"
    /\ \E model_path, runtime, exists, loads \in BOOLEAN :
          llm' = IF model_path /\ runtime /\ exists /\ loads THEN Loaded ELSE NoModel
    /\ phase' = "serving"
    /\ UNCHANGED <<pc, route, body, calls, frames, resp, adapter>>

\* A client sends POST /v1/chat/completions with body b.
ArriveChat(c, b) ==
    /\ phase = "serving"
    /\ pc[c] = "idle"
    /\ pc' = [pc EXCEPT ![c] = "received"]
    /\ route' = [route EXCEPT ![c] = "chat"]
    /\ body' = [body EXCEPT ![c] = b]
    /\ UNCHANGED <<phase, llm, calls, frames, resp, adapter>>

\* A client sends GET /health.
ArriveHealth(c) ==
    /\ phase = "serving"
    /\ pc[c] = "idle"
    /\ pc' = [pc EXCEPT ![c] = "received"]
    /\ route' = [route EXCEPT ![c] = "health"]
    /\ UNCHANGED <<phase, llm, body, calls, frames, resp, adapter>>

\* FastAPI rejects a body that fails validation before the handler runs.
RejectInvalid(c) ==
    /\ CanServe(c)
    /\ route[c] = "chat"
    /\ ~ValidBody(body[c])
    /\ resp' = [resp EXCEPT ![c] = [kind |-> "validation_error", status |-> 422]]
    /\ pc' = [pc EXCEPT ![c] = "done"]
    /\ UNCHANGED <<phase, llm, route, body, calls, frames, adapter>>

\* chat_completions, llm is None: mock_response whatever request.stream is.
ChatMock(c) ==
    /\ CanServe(c)
    /\ route[c] = "chat"
    /\ ValidBody(body[c])
    /\ llm = NoModel
    /\ adapter' = [adapter EXCEPT ![c] = "mock"]
    /\ resp' = [resp EXCEPT ![c] = MockResponse(ParseRequest(body[c]))]
    /\ pc' = [pc EXCEPT ![c] = "done"]
    /\ UNCHANGED <<phase, llm, route, body, calls, frames>>

\* chat_completions, model loaded, request.stream falsy: create_chat_response
\* enters llm.create_chat_completion on the event-loop thread.
ChatBlockingCall(c) ==
    /\ CanServe(c)
    /\ route[c] = "chat"
    /\ ValidBody(body[c])
    /\ llm # NoModel
    /\ ParseRequest(body[c]).stream # TRUE
    /\ adapter' = [adapter EXCEPT ![c] = "runtime"]
    /\ calls' = [calls EXCEPT ![c] = Append(@, CreateChatArgs(ParseRequest(body[c])))]
    /\ pc' = [pc EXCEPT ![c] = "blocking"]
    /\ UNCHANGED <<phase, llm, route, body, frames, resp>>

\* The blocking llama call returns; its dict is the response.
ChatBlockingReturn(c) ==
    /\ pc[c] = "blocking"
    /\ \E p, k \in 0..MaxTok :
          resp' = [resp EXCEPT ![c] = CreateChatResponse(RuntimeCompletion(p, k))]
    /\ pc' = [pc EXCEPT ![c] = "done"]
    /\ UNCHANGED <<phase, llm, route, body, calls, frames, adapter>>

\* The blocking llama call raises; nothing catches it: 500.
ChatBlockingRaise(c) ==
    /\ pc[c] = "blocking"
    /\ resp' = [resp EXCEPT ![c] = [kind |-> "error", status |-> 500, detail |-> "runtime"]]
    /\ pc' = [pc EXCEPT ![c] = "done"]
    /\ UNCHANGED <<phase, llm, route, body, calls, frames, adapter>>

\* chat_completions, model loaded, request.stream true: a StreamingResponse
\* over the not yet started generator is returned.
ChatStreamOpen(c) ==
    /\ CanServe(c)
    /\ route[c] = "chat"
    /\ ValidBody(body[c])
    /\ llm # NoModel
    /\ ParseRequest(body[c]).stream = TRUE
    /\ resp' = [resp EXCEPT ![c] = [kind |-> "sse", status |-> 200, closed |-> FALSE]]
    /\ pc' = [pc EXCEPT ![c] = "streaming"]
    /\ UNCHANGED <<phase, llm, route, body, calls, frames, adapter>>

\* A worker thread calls next() on the generator.  The first next() runs
\* the generator body from its start: the llama call with stream=True.
StreamNext(c) ==
    /\ pc[c] = "streaming"
    /\ IF Len(calls[c]) = 0
       THEN /\ calls' = [calls EXCEPT ![c] = Append(@, StreamChatArgs(ParseRequest(body[c])))]
            /\ adapter' = [adapter EXCEPT ![c] = "runtime"]
       ELSE UNCHANGED <<calls, adapter>>
    /\ pc' = [pc EXCEPT ![c] = "pulling"]
    /\ UNCHANGED <<phase, llm, route, body, frames, resp>>

\* The runtime produced a chunk: the generator yields its frame.
StreamYield(c) ==
    /\ pc[c] = "pulling"
    /\ Len(frames[c]) < MaxChunks
    /\ frames' = [frames EXCEPT ![c] = Append(@, SSEFrame(RuntimeChunk(Len(@) + 1)))]
    /\ pc' = [pc EXCEPT ![c] = "streaming"]
    /\ UNCHANGED <<phase, llm, route, body, calls, resp, adapter>>

\* The runtime's stream is exhausted: the for loop ends, the generator
\* yields the sentinel and finishes.
StreamDone(c) ==
    /\ pc[c] = "pulling"
    /\ frames' = [frames EXCEPT ![c] = Append(@, DoneFrame)]
    /\ resp' = [resp EXCEPT ![c] = [kind |-> "sse", status |-> 200, closed |-> TRUE]]
    /\ pc' = [pc EXCEPT ![c] = "done"]
    /\ UNCHANGED <<phase, llm, route, body, calls, adapter>>

\* The runtime raises inside next(): the exception leaves the generator,
\* which has no try/finally, and the response body ends there.
StreamRaise(c) ==
    /\ pc[c] = "pulling"
    /\ resp' = [resp EXCEPT ![c] = [kind |-> "sse", status |-> 200, closed |-> TRUE,
                                    raised |-> TRUE]]
    /\ pc' = [pc EXCEPT ![c] = "done"]
    /\ UNCHANGED <<phase, llm, route, body, calls, frames, adapter>>

\* health()
Health(c) ==
    /\ CanServe(c)
    /\ route[c] = "health"
    /\ resp' = [resp EXCEPT ![c] = HealthResponse(llm)]
    /\ pc' = [pc EXCEPT ![c] = "done"]
    /\ UNCHANGED <<phase, llm, route, body, calls, frames, adapter>>

\* The exchange is over; the connection can carry the next request.
Close(c) ==
    /\ pc[c] = "done"
    /\ pc' = [pc EXCEPT ![c] = "idle"]
    /\ route' = [route EXCEPT ![c] = "none"]
    /\ body' = [body EXCEPT ![c] = NoBody]
    /\ calls' = [calls EXCEPT ![c] = <<>>]
    /\ frames' = [frames EXCEPT ![c] = <<>>]
    /\ resp' = [resp EXCEPT ![c] = NoResp]
    /\ adapter' = [adapter EXCEPT ![c] = "none"]
    /\ UNCHANGED <<phase, llm>>

Serve(c) ==
    \/ ArriveHealth(c)
    \/ RejectInvalid(c)
    \/ ChatMock(c)
    \/ ChatBlockingCall(c)
    \/ ChatBlockingReturn(c)
    \/ ChatBlockingRaise(c)
    \/ ChatStreamOpen(c)
    \/ StreamNext(c)
    \/ StreamYield(c)
    \/ StreamDone(c)
    \/ StreamRaise(c)
    \/ Health(c)
    \/ Close(c)

\* Concurrent connections, few body shapes.
Next ==
    \/ Main
    \/ \E c \in Conns : \E b \in CoreBodies : ArriveChat(c, b)
    \/ \E c \in Conns : Serve(c)

Spec == Init /\ [][Next]_vars

\* One connection, requests one after another, every body shape.
NextReq ==
    \/ Main
    \/ \E b \in AllBodies : ArriveChat(1, b)
    \/ Serve(1)

SpecReq == Init /\ [][NextReq]_vars

\* ---- properties ----
ChatDone(c) == pc[c] = "done" /\ route[c] = "chat"

DoneCount(fs) == Cardinality({i \in 1..Len(fs) : fs[i] = DoneFrame})

\* C1: every valid request with stream=true, model loaded or not, is
\* answered by an SSE frame sequence whose last frame is "data: [DONE]\n\n",
\* which occurs exactly once.
C1_StreamEndsWithDone ==
    \A c \in Conns :
        (/\ ChatDone(c)
         /\ ValidBody(body[c])
         /\ ParseRequest(body[c]).stream = TRUE)
        => /\ resp[c].kind = "sse"
           /\ Len(frames[c]) > 0
           /\ Last(frames[c]) = DoneFrame
           /\ DoneCount(frames[c]) = 1

\* C2: with no model loaded, every request that passed validation gets
\* exactly one choice (index 0, role assistant) whose content is the mock
\* prefix followed by the content of the request's last message, finish_reason
\* "stop", all usage counters 0, and never an error.
C2_MockEcho ==
    \A c \in Conns :
        (ChatDone(c) /\ ValidBody(body[c]) /\ llm = NoModel)
        => /\ resp[c].kind = "completion"
           /\ Len(resp[c].body.choices) = 1
           /\ resp[c].body.choices[1].index = 0
           /\ resp[c].body.choices[1].message.role = "assistant"
           /\ Len(body[c].messages) > 0
           /\ resp[c].body.choices[1].message.content
                = <<MockPrefix, body[c].messages[Len(body[c].messages)].content>>
           /\ resp[c].body.choices[1].finish_reason = "stop"
           /\ resp[c].body.usage.prompt_tokens = 0
           /\ resp[c].body.usage.completion_tokens = 0
           /\ resp[c].body.usage.total_tokens = 0

\* C3: a request whose messages list is empty fails validation with HTTP 400
\* and reaches neither mock_response nor any runtime call.
C3_EmptyMessagesRejected ==
    \A c \in Conns :
        (/\ route[c] = "chat"
         /\ pc[c] \notin {"idle", "received"}
         /\ "messages" \in DOMAIN body[c]
         /\ Len(body[c].messages) = 0)
        => /\ resp[c].kind = "validation_error"
           /\ resp[c].status = 400
           /\ adapter[c] = "none"
           /\ Len(calls[c]) = 0

\* A request holds the runtime while a call of its own is executing in it or
\* while it has an open stream.
HoldsRuntime(c) ==
    \/ pc[c] \in {"blocking", "pulling"}
    \/ pc[c] = "streaming" /\ Len(calls[c]) > 0

\* C4: at most one request is inside the runtime at any time; a stream holds
\* it from its first runtime call until it finishes, so neither another
\* stream's pulls nor a blocking completion run in between.
C4_RuntimeExclusive ==
    \A c, d \in Conns : (HoldsRuntime(c) /\ HoldsRuntime(d)) => c = d

\* C5: when the runtime raises during a streaming generation the frames
\* produced so far are followed by "data: [DONE]\n\n"; when it raises during
\* a blocking call the response is HTTP 500.
C5_RaiseStillDone ==
    \A c \in Conns :
        /\ (resp[c].kind = "sse" /\ "raised" \in DOMAIN resp[c])
            => (Len(frames[c]) > 0 /\ Last(frames[c]) = DoneFrame)
        /\ (resp[c].kind = "error" /\ adapter[c] = "runtime")
            => resp[c].status = 500

\* C6: a health request or a newly arrived request waiting for validation
\* is serviced without waiting for any runtime call to return.
C6_AcceptLoopFree ==
    \A c \in Conns : pc[c] = "received" => CanServe(c)

\* C8: once serving, no step changes the model handle; every health response
\* is {status "ok", model_loaded true} with the handle present and
\* {status "mock_mode", model_loaded false} with it absent, and answering
\* /health changes nothing but that connection's own response.
C8_HandleFixedHealthReflects ==
    [][/\ phase = "serving" => llm' = llm
       /\ \A c \in Conns :
            (pc[c] = "received" /\ route[c] = "health" /\ pc'[c] = "done")
            => /\ resp'[c].kind = "health"
               /\ resp'[c].status = 200
               /\ resp'[c].body.status = (IF llm = Loaded THEN "ok" ELSE "mock_mode")
               /\ resp'[c].body.model_loaded = (llm = Loaded)
               /\ UNCHANGED <<phase, llm, route, body, calls, frames, adapter>>
               /\ \A d \in Conns \ {c} : pc'[d] = pc[d] /\ resp'[d] = resp[d]
      ]_vars

\* /health answered while another request is in the middle of its stream.
C8_Witness ==
    \E c, d \in Conns :
        /\ resp[c].kind = "health"
        /\ llm = Loaded
        /\ pc[d] = "streaming"
        /\ Len(frames[d]) > 0

C10_SamplingDefaultsApplied ==
    \A c \in Conns : \A i \in 1..Len(calls[c]) : \A f \in SamplingFields :
        Len(calls[c][i].messages) > 0 => calls[c][i][f] # Null

====
